---- MODULE Spec2Model ----
(***************************************************************************)
(* Registry screens (MAR titulaires, IADE remplacants, salaries) of         *)
(* src/main.py and the sheet-preserving save helper                         *)
(* save_excel_with_updated_sheet, modelled as one state machine.            *)
(*                                                                          *)
(* Texts are TLA+ strings; a blank cell (NaN in pandas, "" in a form) is    *)
(* the empty string.  A workbook on disk is a sequence of sheets, each a    *)
(* grid of cells (first row = header row); a DataFrame is columns + row     *)
(* labels + rows.  xls.parse and DataFrame.to_excel convert between them.   *)
(***************************************************************************)
EXTENDS Integers, Sequences, FiniteSets, TLC

\* ------------------------------------------------------------------ bounds
\* most rows a registry table may hold (adds are refused by the model beyond)
MaxRows == 2
\* most calls of the save helper in one behaviour
MaxOps == 2

\* ------------------------------------------------------------ program data
Screens == {"mar", "iade", "sal"}

\* excel_path of the open screen (get_file_path("excel_mar") ...)
ExcelPath(s) ==
  IF s = "mar" THEN "mars.xlsx" ELSE IF s = "iade" THEN "iade.xlsx" ELSE "salaries.xlsx"

\* sheet read at screen construction and passed to every save
SheetName(s) ==
  IF s = "mar" THEN "MARS SELARL"
  ELSE IF s = "iade" THEN "Coordonnées IADEs" ELSE "Salariés"

\* the two name columns of the registry
NomCol(s) == IF s = "iade" THEN "NOMR" ELSE "NOM"
PrenomCol(s) == IF s = "iade" THEN "PRENOMR" ELSE "PRENOM"

\* optional columns the forms create when the sheet lacks them
OptCols(s) == IF s = "sal" THEN <<"POSTE", "ADRESSE", "IBAN">> ELSE <<"IBAN">>

\* str.strip() on the texts of the model: a text is whitespace only, or has no
\* whitespace at either end
Whitespace == {"", " "}
Strip(t) == IF t \in Whitespace THEN "" ELSE t

\* ---------------------------------------------------------------- DataFrame
EmptyFrame == [columns |-> <<>>, index |-> <<>>, rows |-> <<>>]

RangeIndex(n) == [i \in 1..n |-> i - 1]

HasCol(df, c) == \E i \in 1..Len(df.columns) : df.columns[i] = c

ColPos(df, c) == CHOOSE i \in 1..Len(df.columns) : df.columns[i] = c

\* row[c] of the row at position p, "" when the column is missing (row.get)
CellAt(df, p, c) == IF HasCol(df, c) THEN df.rows[p][ColPos(df, c)] ELSE ""

\* df[c] = "" : a new column, blank in every row
AddColumn(df, c) ==
  IF HasCol(df, c) THEN df
  ELSE [df EXCEPT !.columns = Append(@, c),
                  !.rows = [p \in 1..Len(@) |-> Append(@[p], "")]]

HasLabel(df, l) == \E p \in 1..Len(df.index) : df.index[p] = l

BlankRow(df) == [i \in 1..Len(df.columns) |-> ""]

\* df.loc[l, c] = v : writes the cell of every row labelled l; a label that is
\* not in the index enlarges the frame by one row, blank elsewhere
LocSetCell(df, l, c, v) ==
  LET d == AddColumn(df, c)
      k == ColPos(d, c)
  IN IF HasLabel(d, l)
     THEN [d EXCEPT !.rows = [p \in 1..Len(@) |->
                                 IF d.index[p] = l THEN [@[p] EXCEPT ![k] = v] ELSE @[p]]]
     ELSE [d EXCEPT !.index = Append(@, l),
                    !.rows = Append(@, [BlankRow(d) EXCEPT ![k] = v])]

\* the row a dict becomes: aligned to the frame's columns, blank where the dict
\* has no key
DictRow(df, dict) ==
  [i \in 1..Len(df.columns) |->
     IF df.columns[i] \in DOMAIN dict THEN dict[df.columns[i]] ELSE ""]

\* df.loc[l] = dict : overwrites the rows labelled l, or appends a row labelled l
LocSetRow(df, l, dict) ==
  IF HasLabel(df, l)
  THEN [df EXCEPT !.rows = [p \in 1..Len(@) |->
                              IF df.index[p] = l THEN DictRow(df, dict) ELSE @[p]]]
  ELSE [df EXCEPT !.index = Append(@, l), !.rows = Append(@, DictRow(df, dict))]

RECURSIVE KeepPositions(_, _, _)
KeepPositions(seq, keep, p) ==
  IF p > Len(seq) THEN <<>>
  ELSE (IF p \in keep THEN <<seq[p]>> ELSE <<>>) \o KeepPositions(seq, keep, p + 1)

\* df.drop(df.index[pos0], inplace=True) : removes every row carrying the label
\* found at position pos0 (0-based)
DropAt(df, pos0) ==
  LET l == df.index[pos0 + 1]
      keep == {p \in 1..Len(df.index) : df.index[p] # l}
  IN [df EXCEPT !.index = KeepPositions(df.index, keep, 1),
                !.rows = KeepPositions(df.rows, keep, 1)]

\* df.reset_index(drop=True, inplace=True)
ResetIndex(df) == [df EXCEPT !.index = RangeIndex(Len(df.rows))]

\* --------------------------------------------------- sheet <-> DataFrame
\* column names pandas gives a header row: a blank header cell is named
\* "Unnamed: k", a repeated name gets the suffix ".n"
MangleHeader(hdr) ==
  [i \in 1..Len(hdr) |->
     IF hdr[i] = "" THEN "Unnamed: " \o ToString(i - 1)
     ELSE LET n == Cardinality({j \in 1..(i - 1) : hdr[j] = hdr[i]})
          IN IF n = 0 THEN hdr[i] ELSE hdr[i] \o "." \o ToString(n)]

\* xls.parse(sheet) / pd.read_excel(path, sheet_name=...)
Parse(grid) ==
  IF grid = <<>> THEN EmptyFrame
  ELSE [columns |-> MangleHeader(grid[1]),
        index |-> RangeIndex(Len(grid) - 1),
        rows |-> [p \in 1..(Len(grid) - 1) |-> grid[p + 1]]]

\* df.to_excel(writer, sheet_name=sheet, index=False): the header row, then the
\* rows; the row labels are not written
ToExcel(df) ==
  IF df.columns = <<>> THEN <<>> ELSE <<df.columns>> \o df.rows

\* -------------------------------------------------------------- disk files
NoFile == [kind |-> "none", sheets |-> <<>>]

\* a file that exists but is no readable workbook (truncated or partly written)
CorruptFile == [kind |-> "corrupt", sheets |-> <<>>]

Xlsx(sheets) == [kind |-> "xlsx", sheets |-> sheets]

SheetNames(sheets) == {sheets[i].name : i \in 1..Len(sheets)}

SheetPos(sheets, name) == CHOOSE i \in 1..Len(sheets) : sheets[i].name = name

VARIABLES
  screen,     \* the registry screen that is open
  wb,         \* the workbook file at excel_path
  bak,        \* the file at excel_path + ".bak"
  table,      \* the screen's DataFrame (mars_titulaires, iade_data, salaries_data)
  listbox,    \* the entries of the tk.Listbox
  rowsData,   \* mars_data / iade_data_list / salaries_list: the rows shown
  form,       \* the modal Toplevel that is open, if any
  handler,    \* the handler that runs, or ran last, and whether it has finished
  shown,      \* the message boxes shown since that handler started
  pc,         \* position inside save_excel_with_updated_sheet
  call,       \* the frame of the running save_excel_with_updated_sheet call
  ops         \* calls of the save helper so far

VARIABLES
  config,         \* the file config.json next to main.py
  docusign_vars,  \* self.docusign_vars: the three StringVars of the DocuSign tab
  button,         \* the settings-tab button pressed last, "none" after an edit
  settingsView,   \* the management frame built in the settings tab, if any
  settingsShown,  \* the message box that button's callback showed
  tkError         \* the exception that escaped that callback, if any

registry == <<screen, wb, bak, table, listbox, rowsData, form, handler, shown, pc, call, ops>>
settings == <<config, docusign_vars, button, settingsView, settingsShown, tkError>>
vars == <<registry, settings>>

disk == <<wb, bak>>
ui == <<table, listbox, rowsData, form, handler>>

\* ------------------------------------------------------------- list widget
\* the label refresh_listbox builds for one row
FullName(s, nom, prenom, poste) ==
  LET n == Strip(nom)
      p == Strip(prenom)
  IN IF s = "sal" /\ poste # ""
     THEN (IF n # "" THEN nom \o " " \o prenom \o " - " \o poste
           ELSE IF p # "" THEN prenom \o " - " \o poste
           ELSE "- " \o poste)
     ELSE (IF n = "" THEN p ELSE IF p = "" THEN n ELSE n \o " " \o p)

RowLabel(s, df, p) ==
  FullName(s, CellAt(df, p, NomCol(s)), CellAt(df, p, PrenomCol(s)), CellAt(df, p, "POSTE"))

\* listbox.delete(0, END) then one insert per row of the table, in table order
RefreshedListbox(s, df) == [p \in 1..Len(df.rows) |-> RowLabel(s, df, p)]

\* mars_data.clear() then one append per row
RefreshedRows(df) == df.rows

\* ---------------------------------------------- save_excel_with_updated_sheet
IdleCall ==
  [caller |-> "none", file_path |-> "", sheet_name |-> "", updated_data |-> EmptyFrame,
   isDataFrame |-> FALSE, wb0 |-> NoFile, bak0 |-> NoFile, sheets |-> <<>>,
   trace |-> <<>>, result |-> "none"]

\* the frame at entry: the arguments, and the two files as they are at entry
NewCall(who, path, sheet, data, isDf) ==
  [IdleCall EXCEPT !.caller = who, !.file_path = path, !.sheet_name = sheet,
                   !.updated_data = data, !.isDataFrame = isDf, !.wb0 = wb, !.bak0 = bak]

\* os.path.exists(file_path)
PathExists(path) == path = ExcelPath(screen) /\ wb.kind # "none"

Return(value, step) ==
  /\ call' = [call EXCEPT !.result = value, !.trace = Append(@, step)]
  /\ pc' = "done"

Goto(next, step) ==
  /\ call' = [call EXCEPT !.trace = Append(@, step)]
  /\ pc' = next

\* mutant: the sheet name is not checked
SaveCheckParams_NoSheetCheck ==
  /\ pc = "params"
  /\ IF (call.file_path = "" \/ ~PathExists(call.file_path))
        \/ ~call.isDataFrame
     THEN Return("False", "params_rejected") /\ shown' = Append(shown, "helper:error")
     ELSE Goto("lock", "params_ok") /\ UNCHANGED shown
  /\ UNCHANGED <<settings, screen, disk, ui, ops>>

\* the three argument checks
SaveCheckParams ==
  /\ pc = "params"
  /\ IF (call.file_path = "" \/ ~PathExists(call.file_path))
        \/ call.sheet_name = ""
        \/ ~call.isDataFrame
     THEN Return("False", "params_rejected") /\ shown' = Append(shown, "helper:error")
     ELSE Goto("lock", "params_ok") /\ UNCHANGED shown
  /\ UNCHANGED <<settings, screen, disk, ui, ops>>

\* mutant: the lock check warns but does not return, so the save goes on
SaveLockCheck_NoReturn ==
  /\ pc = "lock"
  /\ \E outcome \in {"ok", "IOError", "other"} :
       CASE outcome = "ok" -> Goto("backup", "lock_ok") /\ UNCHANGED shown
         [] outcome = "IOError" ->
              Goto("backup", "lock_busy") /\ shown' = Append(shown, "helper:warning")
         [] OTHER ->
              Return("False", "lock_error") /\ shown' = Append(shown, "helper:error")
  /\ UNCHANGED <<settings, screen, disk, ui, ops>>

\* mutant: no outer try/except, so an unexpected exception leaves the helper
SaveLockCheck_Unguarded ==
  /\ pc = "lock"
  /\ \E outcome \in {"ok", "IOError", "other"} :
       CASE outcome = "ok" -> Goto("backup", "lock_ok") /\ UNCHANGED shown
         [] outcome = "IOError" ->
              Return("False", "lock_busy") /\ shown' = Append(shown, "helper:warning")
         [] OTHER -> Return("raised", "lock_error") /\ UNCHANGED shown
  /\ UNCHANGED <<settings, screen, disk, ui, ops>>

\* mutant: the copy to .bak is left out, the sheets are loaded right away
SaveLockCheck_SkipsBackup ==
  /\ pc = "lock"
  /\ \E outcome \in {"ok", "IOError", "other"} :
       CASE outcome = "ok" -> Goto("load", "lock_ok") /\ UNCHANGED shown
         [] outcome = "IOError" ->
              Return("False", "lock_busy") /\ shown' = Append(shown, "helper:warning")
         [] OTHER ->
              Return("False", "lock_error") /\ shown' = Append(shown, "helper:error")
  /\ UNCHANGED <<settings, screen, disk, ui, ops>>

\* open(file_path, 'r+b'): passes, raises IOError (the file is held by another
\* application), or raises something else, which the outer handler catches
SaveLockCheck ==
  /\ pc = "lock"
  /\ \E outcome \in {"ok", "IOError", "other"} :
       CASE outcome = "ok" -> Goto("backup", "lock_ok") /\ UNCHANGED shown
         [] outcome = "IOError" ->
              Return("False", "lock_busy") /\ shown' = Append(shown, "helper:warning")
         [] OTHER ->
              Return("False", "lock_error") /\ shown' = Append(shown, "helper:error")
  /\ UNCHANGED <<settings, screen, disk, ui, ops>>

\* shutil.copy2(file_path, backup_path); a failure is printed and ignored
SaveBackup ==
  /\ pc = "backup"
  /\ \E copied \in BOOLEAN :
       IF copied
       THEN bak' = wb /\ Goto("load", "backup_ok")
       ELSE bak' = bak /\ Goto("load", "backup_failed")
  /\ UNCHANGED <<settings, screen, wb, ui, shown, ops>>

\* every sheet of the workbook, parsed, in workbook order
LoadedSheets(file) ==
  [i \in 1..Len(file.sheets) |->
     [name |-> file.sheets[i].name, df |-> Parse(file.sheets[i].grid)]]

\* mutant: the updated sheet is put in front of the others
UpdatedSheets_Front(loaded, name, data) ==
  << [name |-> name, df |-> data] >> \o SelectSeq(loaded, LAMBDA e : e.name # name)

\* mutant: only the updated sheet is kept for the rewrite
UpdatedSheets_OnlyUpdated(loaded, name, data) == << [name |-> name, df |-> data] >>

\* sheets[sheet_name] = updated_data : replaces the entry in place, or adds it
\* after the others
UpdatedSheets(loaded, name, data) ==
  IF name \in SheetNames(loaded)
  THEN [loaded EXCEPT ![SheetPos(loaded, name)].df = data]
  ELSE Append(loaded, [name |-> name, df |-> data])

\* mutant: a failed load is reported but the rewrite goes on with what was loaded
SaveLoad_GoesOn ==
  /\ pc = "load"
  /\ \E readable \in BOOLEAN :
       IF readable /\ wb.kind = "xlsx"
       THEN /\ call' = [call EXCEPT
                          !.sheets = UpdatedSheets(LoadedSheets(wb), call.sheet_name,
                                                   call.updated_data),
                          !.trace = Append(@, "load_ok")]
            /\ pc' = "write"
            /\ UNCHANGED shown
       ELSE /\ call' = [call EXCEPT
                          !.sheets = UpdatedSheets(<<>>, call.sheet_name, call.updated_data),
                          !.trace = Append(@, "load_failed")]
            /\ pc' = "write"
            /\ shown' = Append(shown, "helper:error")
  /\ UNCHANGED <<settings, screen, disk, ui, ops>>

\* pd.ExcelFile + xls.parse of every sheet, then the update of the dict; a file
\* that is no workbook, or a read error, returns False
SaveLoad ==
  /\ pc = "load"
  /\ \E readable \in BOOLEAN :
       IF readable /\ wb.kind = "xlsx"
       THEN /\ call' = [call EXCEPT
                          !.sheets = UpdatedSheets(LoadedSheets(wb), call.sheet_name,
                                                   call.updated_data),
                          !.trace = Append(@, "load_ok")]
            /\ pc' = "write"
            /\ UNCHANGED shown
       ELSE Return("False", "load_failed") /\ shown' = Append(shown, "helper:error")
  /\ UNCHANGED <<settings, screen, disk, ui, ops>>

\* the workbook pd.ExcelWriter(mode="w") leaves when every to_excel succeeds
WrittenFile(sheets) ==
  Xlsx([i \in 1..Len(sheets) |-> [name |-> sheets[i].name, grid |-> ToExcel(sheets[i].df)]])

\* mutant: the sheets are read again just before the rewrite
SaveWrite_Reloads ==
  /\ pc = "write"
  /\ \/ /\ wb' = IF wb.kind = "xlsx"
                  THEN WrittenFile(UpdatedSheets(LoadedSheets(wb), call.sheet_name,
                                                 call.updated_data))
                  ELSE WrittenFile(call.sheets)
        /\ Goto("cleanup", "write_ok")
     \/ \E left \in {wb, CorruptFile} : wb' = left /\ Goto("restore", "write_failed")
  /\ UNCHANGED <<settings, screen, bak, ui, shown, ops>>

\* the rewrite: on success the file holds every sheet of the dict; on an
\* exception the file is as it was (the open failed) or no longer a workbook
SaveWrite ==
  /\ pc = "write"
  /\ \/ wb' = WrittenFile(call.sheets) /\ Goto("cleanup", "write_ok")
     \/ \E left \in {wb, CorruptFile} : wb' = left /\ Goto("restore", "write_failed")
  /\ UNCHANGED <<settings, screen, bak, ui, shown, ops>>

\* mutant: success is returned without deleting the backup
SaveCleanup_KeepsBackup ==
  /\ pc = "cleanup"
  /\ bak' = bak
  /\ Return("True", "kept")
  /\ shown' = Append(shown, "helper:success")
  /\ UNCHANGED <<settings, screen, wb, ui, ops>>

\* after a successful rewrite: os.remove(backup_path) when it exists (a failure
\* is printed and ignored), show_success, return True
SaveCleanup ==
  /\ pc = "cleanup"
  /\ IF bak.kind # "none"
     THEN \E removed \in BOOLEAN :
            IF removed
            THEN bak' = NoFile /\ Return("True", "remove_ok")
            ELSE bak' = bak /\ Return("True", "remove_failed")
     ELSE bak' = bak /\ Return("True", "no_backup")
  /\ shown' = Append(shown, "helper:success")
  /\ UNCHANGED <<settings, screen, wb, ui, ops>>

\* after a failed rewrite: shutil.copy2(backup_path, file_path) when the backup
\* exists (a failure is printed and ignored), show_error, return False
SaveRestore ==
  /\ pc = "restore"
  /\ IF bak.kind # "none"
     THEN \E restored \in BOOLEAN :
            IF restored
            THEN wb' = bak /\ Return("False", "restore_ok")
            ELSE wb' = wb /\ Return("False", "restore_failed")
     ELSE wb' = wb /\ Return("False", "no_backup")
  /\ shown' = Append(shown, "helper:error")
  /\ UNCHANGED <<settings, screen, bak, ui, ops>>

\* ------------------------------------------------------------ the forms
\* the open form: its kind, the list position a modify form was opened on, and
\* the SEXE field of the IADE forms with the three read-only fields derived
\* from it (blank in the forms of the two other screens, which have none)
NoForm == [kind |-> "none", sel |-> -1, sexe |-> "", er |-> "", ilr |-> "", salarier |-> ""]

\* the columns the IADE forms write besides the names and the IBAN
GenderCols(s) == IF s = "iade" THEN <<"SEXE", "ER", "ILR", "SALARIER">> ELSE <<>>

\* update_gender_fields: the three derived StringVars follow sexe_var
UpdateGenderFields(f) ==
  IF f.sexe = "Madame"
  THEN [f EXCEPT !.er = "e", !.ilr = "elle", !.salarier = "à la salariée"]
  ELSE [f EXCEPT !.er = "", !.ilr = "il", !.salarier = "au salarié"]

\* mutant: sexe_var is written without its trace running
SetSexe_NoTrace(f, v) == [f EXCEPT !.sexe = v]

\* sexe_var.set(v): the write trace calls update_gender_fields
SetSexe(f, v) == UpdateGenderFields([f EXCEPT !.sexe = v])

\* selected_row.get("SEXE", "Monsieur"), "Monsieur" too when the cell is blank
StoredSexe(df, p) ==
  IF HasCol(df, "SEXE") /\ df.rows[p][ColPos(df, "SEXE")] # ""
  THEN df.rows[p][ColPos(df, "SEXE")] ELSE "Monsieur"

\* the add form when on_add has built it: sexe_var starts at "Monsieur", the
\* derived fields are computed once, and ttk.OptionMenu(window, sexe_var,
\* "Monsieur", "Madame") sets the variable to its default "Monsieur"
AddForm(s) ==
  IF s # "iade" THEN [NoForm EXCEPT !.kind = "add"]
  ELSE SetSexe(UpdateGenderFields([NoForm EXCEPT !.kind = "add", !.sexe = "Monsieur"]),
               "Monsieur")

\* the modify form when on_modify has built it on the row shown at position
\* sel: the StringVars start from the stored row, then as in the add form
ModifyForm(s, df, sel) ==
  IF s # "iade" THEN [NoForm EXCEPT !.kind = "modify", !.sel = sel]
  ELSE SetSexe(UpdateGenderFields([kind |-> "modify", sel |-> sel,
                                   sexe |-> StoredSexe(df, sel + 1),
                                   er |-> CellAt(df, sel + 1, "ER"),
                                   ilr |-> CellAt(df, sel + 1, "ILR"),
                                   salarier |-> CellAt(df, sel + 1, "SALARIER")]),
               "Monsieur")

\* the value the form holds for a column of GenderCols
GenderValue(f, c) ==
  IF c = "SEXE" THEN f.sexe
  ELSE IF c = "ER" THEN f.er ELSE IF c = "ILR" THEN f.ilr ELSE f.salarier

\* what the user may have typed when a form's save button is pressed.  The
\* fields the three forms share in kind are kept: the two required names and the
\* optional columns; POSTE and ADRESSE exist in the salaries form only.
FormInputs(s) ==
  { [nom |-> "Martin", prenom |-> "Luc", poste |-> "", adresse |-> "", iban |-> ""],
    [nom |-> "Petit", prenom |-> "Zoe", poste |-> IF s = "sal" THEN "IDE" ELSE "",
     adresse |-> IF s = "sal" THEN "Nice" ELSE "", iban |-> "FR76"],
    [nom |-> " ", prenom |-> "Luc", poste |-> "", adresse |-> "", iban |-> ""] }

\* the value the form holds for an optional column
OptValue(in, c) == IF c = "POSTE" THEN in.poste ELSE IF c = "ADRESSE" THEN in.adresse ELSE in.iban

\* new_row of save_new: the name columns and the optional columns
NewRow(s, in) ==
  [c \in {NomCol(s), PrenomCol(s)} \cup {OptCols(s)[i] : i \in 1..Len(OptCols(s))}
          \cup {GenderCols(s)[i] : i \in 1..Len(GenderCols(s))} |->
     IF c = NomCol(s) THEN in.nom
     ELSE IF c = PrenomCol(s) THEN in.prenom
     ELSE IF c \in {"SEXE", "ER", "ILR", "SALARIER"} THEN GenderValue(form, c)
     ELSE OptValue(in, c)]

\* "if col not in df.columns: df[col] = ''" for every optional column
RECURSIVE WithOptCols(_, _, _)
WithOptCols(df, cols, i) ==
  IF i > Len(cols) THEN df ELSE WithOptCols(AddColumn(df, cols[i]), cols, i + 1)

\* mutant: the new row is written at the last existing label
AddedTable_Overwrite(s, df, in) ==
  LET d == WithOptCols(df, OptCols(s), 1)
  IN LocSetRow(d, Len(d.rows) - 1, NewRow(s, in))

\* the table after save_new's append: df.loc[len(df)] = new_row
AddedTable(s, df, in) ==
  LET d == WithOptCols(df, OptCols(s), 1)
  IN LocSetRow(d, Len(d.rows), NewRow(s, in))

RECURSIVE SetOptCells(_, _, _, _, _)
SetOptCells(df, l, cols, in, i) ==
  IF i > Len(cols) THEN df
  ELSE SetOptCells(LocSetCell(AddColumn(df, cols[i]), l, cols[i], OptValue(in, cols[i])),
                   l, cols, in, i + 1)

\* df.loc[selected_index, col] = var.get() for the columns of GenderCols
RECURSIVE SetGenderCells(_, _, _, _)
SetGenderCells(df, l, cols, i) ==
  IF i > Len(cols) THEN df
  ELSE SetGenderCells(LocSetCell(df, l, cols[i], GenderValue(form, cols[i])), l, cols, i + 1)

\* mutant: the writes go to the first row, whichever entry was selected
ModifiedTable_First(s, df, sel, in) ==
  LET d1 == LocSetCell(df, 0, NomCol(s), in.nom)
      d2 == LocSetCell(d1, 0, PrenomCol(s), in.prenom)
      d3 == SetGenderCells(d2, 0, GenderCols(s), 1)
  IN SetOptCells(d3, 0, OptCols(s), in, 1)

\* the table after save_changes' writes: df.loc[selected_index, col] = value
ModifiedTable(s, df, sel, in) ==
  LET d1 == LocSetCell(df, sel, NomCol(s), in.nom)
      d2 == LocSetCell(d1, sel, PrenomCol(s), in.prenom)
      d3 == SetGenderCells(d2, sel, GenderCols(s), 1)
  IN SetOptCells(d3, sel, OptCols(s), in, 1)

\* mutant: the labels are not renumbered after the drop
DeletedTable_NoReset(df, sel) == DropAt(df, sel)

\* mutant: the last row is dropped, whichever entry is selected
DeletedTable_Last(df, sel) == ResetIndex(DropAt(df, Len(df.rows) - 1))

\* the table after on_delete's drop and reset_index
DeletedTable(df, sel) == ResetIndex(DropAt(df, sel))

\* mutant: the two fields are tested without strip()
MissingRequired_NoStrip(in) == in.nom = "" \/ in.prenom = ""

\* the required-field test of save_new
MissingRequired(in) == Strip(in.nom) = "" \/ Strip(in.prenom) = ""

\* the handler that runs or ran last; sel is the list position a running modify
\* or delete acts on
Running(name) == [name |-> name, finished |-> FALSE, returned |-> "none", sel |-> -1]
Finished(name, value) == [name |-> name, finished |-> TRUE, returned |-> value, sel |-> -1]

\* the handler calls save_excel_with_updated_sheet(excel_path, sheet, table)
CallSave(who, sel, data) ==
  /\ ops < MaxOps
  /\ call' = NewCall(who, ExcelPath(screen), SheetName(screen), data, TRUE)
  /\ pc' = "params"
  /\ ops' = ops + 1
  /\ handler' = [Running(who) EXCEPT !.sel = sel]
  /\ shown' = <<>>

\* "Ajouter" / "Annuler" of the screen and of the add form
OnAdd ==
  /\ pc = "idle" /\ form.kind = "none"
  /\ form' = AddForm(screen)
  /\ UNCHANGED <<settings, screen, disk, table, listbox, rowsData, handler, shown, pc, call, ops>>

SaveNew ==
  /\ pc = "idle" /\ form.kind = "add"
  /\ \E in \in FormInputs(screen) :
       IF MissingRequired(in)
       THEN /\ shown' = <<"handler:warning">>
            /\ handler' = Finished("add", "none")
            /\ UNCHANGED <<table, pc, call, ops>>
       ELSE /\ Len(table.rows) < MaxRows
            /\ table' = AddedTable(screen, table, in)
            /\ CallSave("add", -1, table')
  /\ UNCHANGED <<settings, screen, disk, listbox, rowsData, form>>

\* on_modify: needs a selection; opens the form on the selected position
OnModify ==
  /\ pc = "idle" /\ form.kind = "none"
  /\ \/ /\ \E sel \in 0..(Len(listbox) - 1) :
             form' = ModifyForm(screen, [table EXCEPT !.rows = rowsData], sel)
        /\ UNCHANGED <<handler, shown>>
     \/ /\ shown' = <<"handler:warning">>
        /\ handler' = Finished("modify", "none")
        /\ UNCHANGED form
  /\ UNCHANGED <<settings, screen, disk, table, listbox, rowsData, pc, call, ops>>

SaveChanges ==
  /\ pc = "idle" /\ form.kind = "modify"
  /\ \E in \in FormInputs(screen) :
       /\ table' = ModifiedTable(screen, table, form.sel, in)
       /\ CallSave("modify", form.sel, table')
  /\ UNCHANGED <<settings, screen, disk, listbox, rowsData, form>>

\* the user picks the one entry of the Sexe menu of an IADE form.  The menu is
\* built by ttk.OptionMenu(window, sexe_var, "Monsieur", "Madame"): "Monsieur"
\* is the default value, "Madame" the only entry.
SelectSexe ==
  /\ pc = "idle" /\ screen = "iade" /\ form.kind # "none"
  /\ form' = SetSexe(form, "Madame")
  /\ UNCHANGED <<settings, screen, disk, table, listbox, rowsData, handler, shown, pc, call, ops>>

\* "Annuler": add_window.destroy / modify_window.destroy
Cancel ==
  /\ pc = "idle" /\ form.kind # "none"
  /\ form' = NoForm
  /\ UNCHANGED <<settings, screen, disk, table, listbox, rowsData, handler, shown, pc, call, ops>>

\* mutant: the forms do not grab the input, "Supprimer" works under an open form
OnDelete_NotModal ==
  /\ pc = "idle"
  /\ \/ \E sel \in 0..(Len(listbox) - 1) :
          \/ /\ table' = DeletedTable(table, sel)
             /\ CallSave("delete", sel, table')
          \/ /\ handler' = Finished("delete", "none")
             /\ shown' = <<>>
             /\ UNCHANGED <<table, pc, call, ops>>
     \/ /\ shown' = <<"handler:warning">>
        /\ handler' = Finished("delete", "none")
        /\ UNCHANGED <<table, pc, call, ops>>
  /\ UNCHANGED <<settings, screen, disk, listbox, rowsData, form>>

\* on_delete: needs a selection, asks for confirmation, then drops the row.  An
\* open form holds the grab (grab_set), so the button answers only without one.
OnDelete ==
  /\ pc = "idle" /\ form.kind = "none"
  /\ \/ \E sel \in 0..(Len(listbox) - 1) :
          \/ /\ table' = DeletedTable(table, sel)
             /\ CallSave("delete", sel, table')
          \/ /\ handler' = Finished("delete", "none")
             /\ shown' = <<>>
             /\ UNCHANGED <<table, pc, call, ops>>
     \/ /\ shown' = <<"handler:warning">>
        /\ handler' = Finished("delete", "none")
        /\ UNCHANGED <<table, pc, call, ops>>
  /\ UNCHANGED <<settings, screen, disk, listbox, rowsData, form>>

\* mutant: the handler forgets refresh_listbox()
AfterSave_NoRefresh ==
  /\ pc = "done" /\ call.caller \in {"add", "modify", "delete"}
  /\ IF call.result = "raised"
     THEN /\ shown' = Append(shown, "handler:error")
          /\ UNCHANGED form
     ELSE /\ shown' = Append(shown, "handler:success")
          /\ form' = IF call.caller = "delete" THEN form ELSE NoForm
  /\ handler' = Finished(call.caller, call.result)
  /\ pc' = "idle"
  /\ call' = IdleCall
  /\ UNCHANGED <<settings, screen, disk, table, listbox, rowsData, ops>>

\* the rest of the handler's try block once the save helper has returned:
\* show_success, refresh_listbox, destroy the form; the except branch (an
\* exception out of the helper) shows an error and leaves list and form alone
AfterSave ==
  /\ pc = "done" /\ call.caller \in {"add", "modify", "delete"}
  /\ IF call.result = "raised"
     THEN /\ shown' = Append(shown, "handler:error")
          /\ UNCHANGED <<listbox, rowsData, form>>
     ELSE /\ shown' = Append(shown, "handler:success")
          /\ listbox' = RefreshedListbox(screen, table)
          /\ rowsData' = RefreshedRows(table)
          /\ form' = IF call.caller = "delete" THEN form ELSE NoForm
  /\ handler' = Finished(call.caller, call.result)
  /\ pc' = "idle"
  /\ call' = IdleCall
  /\ UNCHANGED <<settings, screen, disk, table, ops>>

\* the arguments of a call of the helper from outside the registry screens:
\* the screen's own, a sheet the workbook lacks, and each rejected argument
DirectArgs(s) ==
  { [path |-> ExcelPath(s), sheet |-> "Nouvelle", isDf |-> TRUE],
    [path |-> "", sheet |-> SheetName(s), isDf |-> TRUE],
    [path |-> "absent.xlsx", sheet |-> SheetName(s), isDf |-> TRUE],
    [path |-> ExcelPath(s), sheet |-> "", isDf |-> TRUE],
    [path |-> ExcelPath(s), sheet |-> SheetName(s), isDf |-> FALSE] }

DirectCall ==
  /\ pc = "idle" /\ form.kind = "none" /\ ops < MaxOps
  /\ \E a \in DirectArgs(screen) :
       call' = NewCall("direct", a.path, a.sheet,
                       IF a.isDf THEN table ELSE EmptyFrame, a.isDf)
  /\ pc' = "params"
  /\ ops' = ops + 1
  /\ handler' = Running("direct")
  /\ shown' = <<>>
  /\ UNCHANGED <<settings, screen, disk, table, listbox, rowsData, form>>

DirectReturn ==
  /\ pc = "done" /\ call.caller = "direct"
  /\ handler' = Finished("direct", call.result)
  /\ pc' = "idle"
  /\ call' = IdleCall
  /\ UNCHANGED <<settings, screen, disk, table, listbox, rowsData, form, shown, ops>>

\* ------------------------------------------------------------ settings tab
\* a Python dict is a sequence of [key, value] entries in insertion order
DictHas(d, k) == \E i \in 1..Len(d) : d[i].key = k

\* d.get(k, default)
DictGet(d, k, default) ==
  IF DictHas(d, k) THEN d[CHOOSE i \in 1..Len(d) : d[i].key = k].value ELSE default

\* d[k] = v : an existing key keeps its place, a new key goes last
DictSet(d, k, v) ==
  IF DictHas(d, k)
  THEN [i \in 1..Len(d) |-> IF d[i].key = k THEN [key |-> k, value |-> v] ELSE d[i]]
  ELSE Append(d, [key |-> k, value |-> v])

DictKeys(d) == {d[i].key : i \in 1..Len(d)}

\* json.dump writes a text between quotes with every non-ASCII character as
\* \uXXXX and every backslash doubled; json.load undoes both.  The texts of the
\* model that either rule touches are listed, every other text is plain ASCII.
JsonEscape(t) ==
  IF t = "zoé@x.fr" THEN "zo\\u00e9@x.fr"
  ELSE IF t = "\\u00e9" THEN "\\\\u00e9" ELSE t

JsonUnescape(x) ==
  IF x = "zo\\u00e9@x.fr" THEN "zoé@x.fr"
  ELSE IF x = "\\\\u00e9" THEN "\\u00e9"
  ELSE IF x = "\\u00e9" THEN "é" ELSE x

NoConfig == [kind |-> "none", entries |-> <<>>]

\* config.json cut short by a write that failed after open(config_file, "w")
TruncatedConfig == [kind |-> "corrupt", entries |-> <<>>]

\* json.dump(config, f, indent=4)
JsonDump(d) ==
  [kind |-> "json",
   entries |-> [i \in 1..Len(d) |-> [key |-> d[i].key, text |-> JsonEscape(d[i].value)]]]

\* json.load(f)
JsonLoad(file) ==
  [i \in 1..Len(file.entries) |->
     [key |-> file.entries[i].key, value |-> JsonUnescape(file.entries[i].text)]]

\* "if os.path.exists(config_file): config = json.load(f) else: config = {}"
LoadedConfig(file) == IF file.kind = "json" THEN JsonLoad(file) ELSE <<>>

DefaultLoginPage == "https://account.docusign.com"

\* the values docusign_tab_setup puts in the three StringVars
TabValues(cfg) ==
  [login_page |-> DictGet(cfg, "docusign_login_page", DefaultLoginPage),
   email |-> DictGet(cfg, "docusign_email", ""),
   password |-> DictGet(cfg, "docusign_password", "")]

\* mutant: the three keys go into an empty dict
UpdatedConfig_Fresh(cfg, v) ==
  << [key |-> "docusign_login_page", value |-> v.login_page],
     [key |-> "docusign_email", value |-> v.email],
     [key |-> "docusign_password", value |-> v.password] >>

\* the three assignments of save_docusign
UpdatedConfig(cfg, v) ==
  DictSet(DictSet(DictSet(cfg, "docusign_login_page", v.login_page),
                  "docusign_email", v.email),
          "docusign_password", v.password)

\* what the user may type in the fields of the DocuSign tab
DocusignTexts(field) ==
  IF field = "login_page" THEN {DefaultLoginPage, "https://demo.docusign.net"}
  ELSE IF field = "email" THEN {"", "zoé@x.fr"} ELSE {"", "\\u00e9"}

EditDocusign ==
  /\ \E field \in {"login_page", "email", "password"} :
       \E t \in DocusignTexts(field) :
         docusign_vars' = [docusign_vars EXCEPT ![field] = t]
  /\ button' = "none"
  /\ settingsShown' = "none"
  /\ tkError' = "none"
  /\ UNCHANGED <<registry, config, settingsView>>

\* "Enregistrer" of the DocuSign tab.  json.load stands outside the try block:
\* a config.json that is not JSON makes the callback raise.
SaveDocusign ==
  /\ button' = "save_docusign"
  /\ IF config.kind = "corrupt"
     THEN /\ tkError' = "JSONDecodeError"
          /\ settingsShown' = "none"
          /\ UNCHANGED config
     ELSE /\ tkError' = "none"
          /\ \/ /\ config' = JsonDump(UpdatedConfig(LoadedConfig(config), docusign_vars))
                /\ settingsShown' = "success"
             \/ /\ config' \in {config, TruncatedConfig}
                /\ settingsShown' = "error"
  /\ UNCHANGED <<registry, docusign_vars, settingsView>>

\* a registry button whose method exists: the method builds its management
\* frame, and shows an error itself when the sheet cannot be read
OpenManagement(name, frame) ==
  /\ button' = name
  /\ settingsView' = frame
  /\ settingsShown' \in {"none", "error"}
  /\ tkError' = "none"
  /\ UNCHANGED <<registry, config, docusign_vars>>

ManageMarTitulaires == OpenManagement("mar_titulaires", "mar")

\* command=lambda: self.manage_mar_remplacants(): the class defines no such
\* method, the attribute lookup raises inside the callback
ManageMarRemplacants ==
  /\ button' = "mar_remplacants"
  /\ tkError' = "AttributeError"
  /\ settingsShown' = "none"
  /\ UNCHANGED <<registry, config, docusign_vars, settingsView>>

ManageIadeRemplacants == OpenManagement("iade_remplacants", "iade")

ManageSalaries == OpenManagement("salaries", "sal")

\* "Retour aux paramètres" of a management frame: create_settings_tab builds the
\* sub-tabs again (docusign_tab_setup last) and leaves the frame in place
CreateSettingsTab ==
  /\ settingsView # "none"
  /\ button' = "retour"
  /\ settingsShown' = "none"
  /\ IF config.kind = "corrupt"
     THEN tkError' = "JSONDecodeError" /\ UNCHANGED docusign_vars
     ELSE tkError' = "none" /\ docusign_vars' = TabValues(LoadedConfig(config))
  /\ UNCHANGED <<registry, config, settingsView>>

\* ------------------------------------------------------------ initial state
\* a sheet of another kind in the same workbook; its second header cell is blank
OtherSheet == [name |-> "Notes", grid |-> << <<"CLE", "">>, <<"k1", "v1">> >>]

\* the registry sheet: header only, or one row; with or without the optional
\* columns
HeaderOnly(s) == << <<NomCol(s), PrenomCol(s)>> >>
OneRow(s) == << <<NomCol(s), PrenomCol(s)>>, <<"Durand", "Anne">> >>
OneRowOpt(s) ==
  << <<NomCol(s), PrenomCol(s)>> \o OptCols(s),
     <<"Durand", "Anne">> \o [i \in 1..Len(OptCols(s)) |-> ""] >>

Registry(s, g) == [name |-> SheetName(s), grid |-> g]

InitWorkbooks(s) ==
  { Xlsx(<< Registry(s, OneRow(s)), OtherSheet >>),
    Xlsx(<< OtherSheet, Registry(s, IF s = "mar" THEN HeaderOnly(s) ELSE OneRowOpt(s)) >>) }

\* a backup an earlier run left behind: the workbook as it then was
StaleBackup(s) == Xlsx(<< Registry(s, HeaderOnly(s)) >>)

\* the screen just built: the sheet read into the table, the list filled
RegistryAtStart(s, file, backup) ==
  /\ screen = s
  /\ wb = file
  /\ bak = backup
  /\ table = Parse(file.sheets[SheetPos(file.sheets, SheetName(s))].grid)
  /\ listbox = RefreshedListbox(s, table)
  /\ rowsData = RefreshedRows(table)
  /\ form = NoForm
  /\ handler = Finished("none", "none")
  /\ shown = <<>>
  /\ pc = "idle"
  /\ call = IdleCall
  /\ ops = 0

\* the settings tab just built from the config.json found at start
SettingsAtStart(file) ==
  /\ config = file
  /\ docusign_vars = TabValues(LoadedConfig(file))
  /\ button = "none"
  /\ settingsView = "none"
  /\ settingsShown = "none"
  /\ tkError = "none"

Init ==
  /\ \E s \in Screens : \E file \in InitWorkbooks(s) :
       \E backup \in {NoFile, StaleBackup(s)} : RegistryAtStart(s, file, backup)
  /\ SettingsAtStart(NoConfig)

Next ==
  \/ OnAdd \/ SaveNew \/ OnModify \/ SaveChanges \/ Cancel \/ OnDelete \/ AfterSave
  \/ DirectCall \/ DirectReturn
  \/ SaveCheckParams \/ SaveLockCheck \/ SaveBackup \/ SaveLoad \/ SaveWrite
  \/ SaveCleanup \/ SaveRestore

Spec == Init /\ [][Next]_vars

\* the configurations the application may find at start: none, one that holds
\* other settings only, one that holds DocuSign settings among others
InitConfigs ==
  { NoConfig,
    JsonDump(<< [key |-> "excel_mar", value |-> "mars.xlsx"] >>),
    JsonDump(<< [key |-> "docusign_email", value |-> "zoé@x.fr"],
                [key |-> "excel_mar", value |-> "mars.xlsx"],
                [key |-> "docusign_password", value |-> "\\u00e9"] >>) }

\* the settings tab alone: no registry screen is in use
SettingsInit ==
  /\ RegistryAtStart("mar", Xlsx(<< Registry("mar", OneRow("mar")), OtherSheet >>), NoFile)
  /\ \E file \in InitConfigs : SettingsAtStart(file)

SettingsNext ==
  \/ EditDocusign \/ SaveDocusign \/ CreateSettingsTab
  \/ ManageMarTitulaires \/ ManageMarRemplacants \/ ManageIadeRemplacants
  \/ ManageSalaries

SettingsSpec == SettingsInit /\ [][SettingsNext]_vars

\* the IADE sheet with the SEXE column and its three derived columns; the
\* stored row is "Madame" with derived fields that do not fit
GenderRow(s) ==
  << <<NomCol(s), PrenomCol(s), "SEXE", "ER", "ILR", "SALARIER">>,
     <<"Durand", "Anne", "Madame", "", "il", "au salarié">> >>

\* the IADE screen alone, on a sheet with or without those four columns
IadeInit ==
  /\ \E g \in {GenderRow("iade"), OneRow("iade")} :
       RegistryAtStart("iade", Xlsx(<< Registry("iade", g), OtherSheet >>), NoFile)
  /\ SettingsAtStart(NoConfig)

\* the handlers of the screen with the Sexe menu, and the steps of the helper
IadeNext ==
  \/ OnAdd \/ SelectSexe \/ SaveNew \/ OnModify \/ SaveChanges \/ Cancel \/ OnDelete
  \/ AfterSave
  \/ SaveCheckParams \/ SaveLockCheck \/ SaveBackup \/ SaveLoad \/ SaveWrite
  \/ SaveCleanup \/ SaveRestore

IadeSpec == IadeInit /\ [][IadeNext]_vars

\* the row another program appends to a sheet; its text tells during which call
\* of the helper it was written
ExternalText == "ext" \o ToString(ops)
ExternalRow(grid) == [k \in 1..Len(grid[1]) |-> ExternalText]

\* another process rewrites the workbook with one more row in one of its sheets
\* while a call of the helper is about to load the sheets or about to rewrite
\* them: the helper closed the file right after the lock check (with
\* open(...): pass) and holds nothing on it.  At most one such write per call
\* is explored.
ExternalWrite ==
  /\ pc \in {"load", "write"}
  /\ wb.kind = "xlsx"
  /\ \A i \in 1..Len(call.trace) : call.trace[i] # "external_write"
  /\ \E i \in 1..Len(wb.sheets) :
       wb' = [wb EXCEPT !.sheets[i].grid = Append(@, ExternalRow(@))]
  /\ call' = [call EXCEPT !.trace = Append(@, "external_write")]
  /\ UNCHANGED <<settings, screen, bak, ui, shown, pc, ops>>

\* one registry screen with another process writing to its workbook
ConcurrentInit ==
  /\ RegistryAtStart("mar", Xlsx(<< Registry("mar", OneRow("mar")), OtherSheet >>), NoFile)
  /\ SettingsAtStart(NoConfig)

ConcurrentNext ==
  \/ OnAdd \/ SaveNew \/ OnModify \/ SaveChanges \/ Cancel \/ OnDelete \/ AfterSave
  \/ SaveCheckParams \/ SaveLockCheck \/ SaveBackup \/ SaveLoad \/ SaveWrite
  \/ SaveCleanup \/ SaveRestore \/ ExternalWrite

ConcurrentSpec == ConcurrentInit /\ [][ConcurrentNext]_vars

\* ------------------------------------------------------------------ claims
Returned(value) == pc = "done" /\ call.result = value

InTrace(step) == \E i \in 1..Len(call.trace) : call.trace[i] = step

Before(a, b) ==
  \E i, j \in 1..Len(call.trace) : i < j /\ call.trace[i] = a /\ call.trace[j] = b

\* what a frame holds, row labels aside
Content(df) == [columns |-> df.columns, rows |-> df.rows]

GridOf(file, name) == file.sheets[SheetPos(file.sheets, name)].grid

\* the rows of a sheet below its header row
DataRows(grid) == IF grid = <<>> THEN <<>> ELSE Tail(grid)

RegistryHandlers == {"add", "modify", "delete"}

C2_RestoredAfterFailedWrite ==
  (Returned("False") /\ InTrace("write_failed")) => wb = call.wb0

C4_LockCheckFirst ==
  /\ (Returned("False") /\ InTrace("lock_busy")) =>
       /\ wb = call.wb0 /\ bak = call.bak0
       /\ call.trace = <<"params_ok", "lock_busy">>
  /\ \A i \in 1..Len(call.trace) :
       call.trace[i] \in {"backup_ok", "backup_failed", "load_ok", "load_failed",
                          "write_ok", "write_failed"}
         => \E j \in 1..(i - 1) : call.trace[j] = "lock_ok"
  /\ pc \in {"backup", "load", "write", "cleanup", "restore"} => InTrace("lock_ok")

C4_Witness ==
  /\ Returned("False") /\ InTrace("lock_busy")
  /\ call.caller \in RegistryHandlers
  /\ call.bak0.kind = "xlsx"

\* C5 (as claimed): when the rewrite is about to start, the .bak file exists and
\* holds the workbook as it was at entry.
C5_BackupBeforeOverwrite == pc = "write" => bak = call.wb0

\* C6: the helper returns True exactly when the rewrite went through, and then
\* the workbook holds updated_data in sheet_name; every other outcome is a
\* return of False; no exception reaches the caller.
C6_ReturnContract ==
  pc = "done" =>
    /\ call.result \in {"True", "False"}
    /\ (call.result = "True") = InTrace("write_ok")
    /\ call.result = "True" =>
         /\ wb.kind = "xlsx"
         /\ call.sheet_name \in SheetNames(wb.sheets)
         /\ GridOf(wb, call.sheet_name) = ToExcel(call.updated_data)

C6_Witness == Returned("False") /\ InTrace("lock_error")

\* C7 (as claimed): success is reported only after the written file has been
\* verified, the verification coming after the rewrite.
C7_VerifiedBeforeSuccess == Returned("True") => Before("write_ok", "verify_ok")

\* C7 (amended): the steps run in the order lock check, copy to backup, load,
\* overwrite, delete backup; success is reported after the overwrite and the
\* attempt to delete the backup, with no verification of the written file.
C7_StepOrder ==
  Returned("True") =>
    \E b \in {"backup_ok", "backup_failed"}, r \in {"remove_ok", "remove_failed", "no_backup"} :
      call.trace = <<"params_ok", "lock_ok", b, "load_ok", "write_ok", r>>

C7_Witness ==
  Returned("True") /\ Before("backup_ok", "write_ok") /\ Before("write_ok", "remove_ok")

\* C8 (as claimed): a registry handler shows its success message, refreshes the
\* list and closes its form only when the helper returned True.
C8_SuccessOnlyWhenSaved ==
  (/\ handler.finished
   /\ handler.name \in RegistryHandlers
   /\ \E i \in 1..Len(shown) : shown[i] = "handler:success")
    => handler.returned = "True"

\* C9 (as claimed): once a registry handler has finished, the table equals the
\* registry sheet of the workbook on disk.
C9_TableEqualsSheet ==
  (handler.finished /\ handler.name \in RegistryHandlers) =>
    /\ wb.kind = "xlsx"
    /\ SheetName(screen) \in SheetNames(wb.sheets)
    /\ Content(Parse(GridOf(wb, SheetName(screen)))) = Content(table)

\* C10: once a handler has finished, the list has one entry per table row, in
\* table order, showing that row; list position i designates table row i, by
\* position and by label.
C10_ListMatchesTable ==
  handler.finished =>
    /\ Len(listbox) = Len(table.rows)
    /\ Len(rowsData) = Len(table.rows)
    /\ \A p \in 1..Len(table.rows) :
         /\ listbox[p] = RowLabel(screen, table, p)
         /\ rowsData[p] = table.rows[p]
         /\ table.index[p] = p - 1

C10_Witness ==
  /\ handler.finished /\ handler.name = "delete" /\ handler.returned = "False"
  /\ Len(listbox) = 1
  /\ ops = 2

\* C11: the add and modify forms are modal.  While a registry handler runs, the
\* open form is that handler's own (none for a delete), so no add, modify or
\* delete starts under an open form; and while a modify form waits for its save
\* button, the position it captured still carries the same label and the same
\* row of the table as when the form was opened.
C11_ModalForms ==
  /\ (~handler.finished /\ handler.name \in RegistryHandlers) =>
       form.kind = (IF handler.name = "delete" THEN "none" ELSE handler.name)
  /\ (form.kind = "modify" /\ pc = "idle") =>
       /\ form.sel \in 0..(Len(table.rows) - 1)
       /\ table.index[form.sel + 1] = form.sel
       /\ Len(rowsData) = Len(table.rows)
       /\ rowsData[form.sel + 1] = table.rows[form.sel + 1]

C11_Witness ==
  /\ form.kind = "modify" /\ form.sel = 1
  /\ pc = "idle" /\ ops > 0
  /\ handler = Finished("add", "True")

RegistryButtons == {"mar_titulaires", "mar_remplacants", "iade_remplacants", "salaries"}

\* the management frame each registry button is labelled with
ManagementOf(b) ==
  IF b = "mar_titulaires" THEN "mar"
  ELSE IF b = "mar_remplacants" THEN "mar_remplacants"
  ELSE IF b = "iade_remplacants" THEN "iade" ELSE "sal"

\* C12 (as claimed): after any of the four registry buttons of the settings tab
\* is pressed, the management frame of its registry is built and no exception
\* has escaped the callback.
C12_RegistryButtonsOpen ==
  button \in RegistryButtons =>
    tkError = "none" /\ settingsView = ManagementOf(button)

\* what C13 says of one press of the DocuSign save button: config.json then
\* holds the three keys with the values of the form, every other key as before,
\* and building the tab from it shows the values of the form
SavedAsClaimed ==
  LET old == LoadedConfig(config)
      new == LoadedConfig(config')
      mine == {"docusign_login_page", "docusign_email", "docusign_password"}
  IN /\ config'.kind = "json"
     /\ mine \subseteq DictKeys(new)
     /\ TabValues(new) = docusign_vars
     /\ DictKeys(new) \ mine = DictKeys(old) \ mine
     /\ \A k \in DictKeys(old) \ mine : DictGet(new, k, "") = DictGet(old, k, "")

BadArguments ==
  \/ call.file_path = ""
  \/ call.file_path # ExcelPath(screen) \/ call.wb0.kind = "none"
  \/ call.sheet_name = ""
  \/ ~call.isDataFrame

\* C14: called with an empty or non-existing file_path, an empty sheet_name or
\* data that is no DataFrame, the helper returns False at its argument checks:
\* no .bak is created, the workbook is neither read nor written.
C14_BadArgumentsRejected ==
  (pc \notin {"idle", "params"} /\ BadArguments) =>
    /\ Returned("False")
    /\ call.trace = <<"params_rejected">>
    /\ wb = call.wb0
    /\ bak = call.bak0

C14_Witness ==
  /\ Returned("False")
  /\ call.sheet_name = ""
  /\ call.bak0.kind = "none" /\ bak.kind = "none"

SheetOrder(sheets) == [i \in 1..Len(sheets) |-> sheets[i].name]

\* C15: after a successful save the workbook's sheets are, in order, those it
\* had at entry, followed by sheet_name when the workbook lacked it; a replaced
\* sheet keeps its position.
C15_SheetOrderKept ==
  Returned("True") =>
    SheetOrder(wb.sheets) =
      IF call.sheet_name \in SheetNames(call.wb0.sheets)
      THEN SheetOrder(call.wb0.sheets)
      ELSE Append(SheetOrder(call.wb0.sheets), call.sheet_name)

C15_Witness ==
  /\ Returned("True")
  /\ call.sheet_name = "Nouvelle"
  /\ SheetOrder(wb.sheets) = <<"Notes", SheetName(screen), "Nouvelle">>

\* C16: when loading the existing sheets fails the helper returns False there:
\* no rewrite was attempted and the workbook is as it was at entry.
C16_LoadFailureLeavesWorkbook ==
  (pc = "done" /\ InTrace("load_failed")) =>
    /\ call.result = "False"
    /\ call.trace[Len(call.trace)] = "load_failed"
    /\ wb = call.wb0

C16_Witness ==
  /\ Returned("False") /\ InTrace("load_failed")
  /\ InTrace("backup_ok")
  /\ call.caller = "delete"

\* C17 (as claimed): whenever a call restores the workbook from the .bak, that
\* .bak holds the workbook as it was at the start of that same call.
C17_RestoreUsesOwnBackup ==
  (pc = "done" /\ InTrace("restore_ok")) => wb = call.wb0

HoldsInput(s, df, p, in) ==
  /\ CellAt(df, p, NomCol(s)) = in.nom
  /\ CellAt(df, p, PrenomCol(s)) = in.prenom
  /\ \A i \in 1..Len(OptCols(s)) : CellAt(df, p, OptCols(s)[i]) = OptValue(in, OptCols(s)[i])

Without(seq, p) == [i \in 1..(Len(seq) - 1) |-> IF i < p THEN seq[i] ELSE seq[i + 1]]

\* C20: a delete that starts a save has removed exactly the row at the selected
\* list position and kept the other rows in order; a delete that ends without a
\* save (declined, or nothing selected) leaves table and workbook untouched.
C20_DeleteRemovesSelectedRow ==
  [][(pc = "idle" /\ form.kind = "none" /\ handler'.name = "delete" /\ handler' # handler) =>
       \/ /\ pc' = "params" /\ call'.caller = "delete"
          /\ handler'.sel \in 0..(Len(listbox) - 1)
          /\ table'.columns = table.columns
          /\ table'.rows = Without(table.rows, handler'.sel + 1)
          /\ call'.updated_data = table'
       \/ /\ handler'.finished
          /\ UNCHANGED <<table, wb, bak, listbox, rowsData, pc, call, ops>>]_vars

C20_Witness ==
  /\ pc = "params" /\ call.caller = "delete"
  /\ handler.sel = 0
  /\ Len(table.rows) = 1 /\ Len(listbox) = 2

\* C21: whatever adds, modifies and deletes were made, the row labels of the
\* screen's table are 0..n-1 in order, n being its number of rows.
C21_LabelsAreRange == table.index = RangeIndex(Len(table.rows))

C21_Witness ==
  /\ handler = Finished("delete", "True") /\ ops = 2
  /\ table.index = <<0>>
  /\ CellAt(table, 1, NomCol(screen)) # "Durand"

\* the columns a form of the screen writes
FormBacked(s) ==
  {NomCol(s), PrenomCol(s)} \cup {OptCols(s)[i] : i \in 1..Len(OptCols(s))}
    \cup {GenderCols(s)[i] : i \in 1..Len(GenderCols(s))}

\* C22: a modify hands the helper a table in which the row selected when the
\* form was opened holds the form's values in the form's columns, and every
\* other cell is as before: same rows, same labels, the old columns in place,
\* a column the modify created blank in the other rows.
C22_ModifyChangesSelectedRowOnly ==
  [][(pc = "idle" /\ pc' = "params" /\ call'.caller = "modify") =>
       LET n == Len(table.rows)
           s == form.sel + 1
       IN /\ Len(table'.rows) = n
          /\ table'.index = table.index
          /\ call'.updated_data = table'
          /\ \A i \in 1..Len(table.columns) : table'.columns[i] = table.columns[i]
          /\ \A p \in (1..n) \ {s} : \A i \in 1..Len(table'.columns) :
               table'.rows[p][i] = CellAt(table, p, table'.columns[i])
          /\ \A i \in 1..Len(table.columns) :
               table.columns[i] \notin FormBacked(screen) => table'.rows[s][i] = table.rows[s][i]
          /\ \E in \in FormInputs(screen) : HoldsInput(screen, table', s, in)]_vars

C22_Witness ==
  /\ pc = "params" /\ call.caller = "modify"
  /\ handler.sel = 1 /\ Len(table.rows) = 2
  /\ CellAt(table, 1, NomCol(screen)) = "Durand"
  /\ CellAt(table, 2, NomCol(screen)) = "Petit"

DerivedOf(sexe) ==
  IF sexe = "Madame"
  THEN [ER |-> "e", ILR |-> "elle", SALARIER |-> "à la salariée"]
  ELSE [ER |-> "", ILR |-> "il", SALARIER |-> "au salarié"]

\* C24: while an IADE add or modify form is open its ER, ILR and SALARIER
\* fields are those its SEXE field calls for, and in the table a form's save
\* hands the helper, the written row's ER, ILR and SALARIER cells are those its
\* SEXE cell calls for.
C24_GenderFieldsFollowSexe ==
  /\ (screen = "iade" /\ form.kind # "none") =>
       [ER |-> form.er, ILR |-> form.ilr, SALARIER |-> form.salarier] = DerivedOf(form.sexe)
  /\ (screen = "iade" /\ pc = "params" /\ call.caller \in {"add", "modify"}) =>
       LET d == call.updated_data
           p == IF call.caller = "add" THEN Len(d.rows) ELSE handler.sel + 1
       IN HasCol(d, "SEXE") =>
            \A c \in {"ER", "ILR", "SALARIER"} :
              HasCol(d, c) => CellAt(d, p, c) = DerivedOf(CellAt(d, p, "SEXE"))[c]

C24_Witness ==
  /\ screen = "iade" /\ pc = "params" /\ call.caller = "modify"
  /\ rowsData[1] = <<"Durand", "Anne", "Madame", "", "il", "au salarié">>
  /\ form.sexe = "Madame"
  /\ CellAt(call.updated_data, 1, "SALARIER") = "à la salariée"

\* C25: a row that another process adds to any sheet of the workbook after the
\* helper has loaded the sheets and before it rewrites them is gone once the
\* helper has returned True: the workbook then holds exactly the sheets as
\* loaded, with the updated sheet, and no cell written during this call by the
\* other process.
C25_LateChangeOverwritten ==
  (Returned("True") /\ Before("load_ok", "external_write")) =>
    /\ wb = WrittenFile(call.sheets)
    /\ \A i \in 1..Len(wb.sheets) : \A r \in 1..Len(wb.sheets[i].grid) :
         \A k \in 1..Len(wb.sheets[i].grid[r]) : wb.sheets[i].grid[r][k] # ExternalText

C25_Witness ==
  /\ Returned("True")
  /\ Before("lock_ok", "load_ok")
  /\ Before("load_ok", "external_write")
  /\ Before("external_write", "write_ok")

====
